---- MODULE Spec2Model ----
(***************************************************************************)
(* gen_build_matrix.py: computes the CI job matrix of the wheels that are  *)
(* missing from the storage bucket.  Python str values are TLA+ strings,   *)
(* dicts are functions on their keys, lists are sequences.                 *)
(***************************************************************************)
EXTENDS Integers, Sequences, FiniteSets, TLC

(***************************************************************************)
(* Python str primitives used by the program.                              *)
(***************************************************************************)
CharAt(s, i) == SubSeq(s, i, i)

\* str.replace(old, new) for a one-character old.
RECURSIVE Replace(_, _, _)
Replace(s, old, new) ==
    IF Len(s) = 0 THEN ""
    ELSE (IF Head(s) = old THEN new ELSE Head(s)) \o Replace(Tail(s), old, new)

\* sep.join(parts)
RECURSIVE Join(_, _)
Join(parts, sep) ==
    IF Len(parts) = 0 THEN ""
    ELSE IF Len(parts) = 1 THEN parts[1]
    ELSE parts[1] \o sep \o Join(Tail(parts), sep)

\* position of the first sep in s, 0 when there is none
RECURSIVE Find(_, _, _)
Find(s, sep, from) ==
    IF from > Len(s) THEN 0
    ELSE IF CharAt(s, from) = sep THEN from
    ELSE Find(s, sep, from + 1)

\* s.split(sep) for a one-character sep
RECURSIVE Split(_, _)
Split(s, sep) ==
    LET p == Find(s, sep, 1)
    IN  IF p = 0 THEN <<s>>
        ELSE <<SubSeq(s, 1, p - 1)>> \o Split(SubSeq(s, p + 1, Len(s)), sep)

Digits == <<"0", "1", "2", "3", "4", "5", "6", "7", "8", "9">>

IsDigit(c) == \E d \in 1..10 : Digits[d] = c

DigitVal(c) == (CHOOSE d \in 1..10 : Digits[d] = c) - 1

IsDigits(s) == Len(s) > 0 /\ \A i \in 1..Len(s) : IsDigit(CharAt(s, i))

\* int(v) of a decimal digit string
RECURSIVE StrToInt(_)
StrToInt(s) ==
    IF Len(s) = 0 THEN 0
    ELSE 10 * StrToInt(SubSeq(s, 1, Len(s) - 1)) + DigitVal(CharAt(s, Len(s)))

\* str(v) of a non-negative int
RECURSIVE IntToStr(_)
IntToStr(n) ==
    IF n < 10 THEN Digits[n + 1]
    ELSE IntToStr(n \div 10) \o Digits[(n % 10) + 1]

UpperCase == "ABCDEFGHIJKLMNOPQRSTUVWXYZ"

LowerCase == "abcdefghijklmnopqrstuvwxyz"

LowerChar(c) ==
    IF \E i \in 1..Len(UpperCase) : CharAt(UpperCase, i) = c
    THEN CharAt(LowerCase, CHOOSE i \in 1..Len(UpperCase) : CharAt(UpperCase, i) = c)
    ELSE c

\* str.lower()
RECURSIVE Lower(_)
Lower(s) == IF Len(s) = 0 THEN "" ELSE LowerChar(Head(s)) \o Lower(Tail(s))

\* the items of a list that are truthy (non-empty strings)
RECURSIVE NonEmpty(_)
NonEmpty(parts) ==
    IF Len(parts) = 0 THEN <<>>
    ELSE (IF parts[1] = "" THEN <<>> ELSE <<parts[1]>>) \o NonEmpty(Tail(parts))

(***************************************************************************)
(* BuildSpec and its derived properties.                                   *)
(***************************************************************************)
BuildSpec(package, version, platform_instance, platform_arch, python_tag, abi_tag, platform_tag, sdist_url, constraints) ==
    [package |-> package, version |-> version,
     platform_instance |-> platform_instance, platform_arch |-> platform_arch,
     python_tag |-> python_tag, abi_tag |-> abi_tag,
     platform_tag |-> platform_tag, sdist_url |-> sdist_url,
     constraints |-> constraints]

sdist_dir(spec) == Join(<<Replace(spec.package, "-", "_"), spec.version>>, "-")

\* the abi tag alone, without the fallback to python_tag
AbiOnly(spec) == spec.abi_tag

\* abi_tag or python_tag
AbiOrPython(spec) == IF spec.abi_tag = "" THEN spec.python_tag ELSE spec.abi_tag

filename(spec) ==
    Join(NonEmpty(<<sdist_dir(spec), spec.python_tag, AbiOrPython(spec),
                    spec.platform_tag>>), "-") \o ".whl"

(***************************************************************************)
(* Python tags and versions.                                               *)
(***************************************************************************)
\* re.match(r'cp(?P<maj>\d)(?P<min>\d{1,2})$', tag): $ also matches before
\* one trailing newline.
TagBody(tag) ==
    IF Len(tag) > 0 /\ CharAt(tag, Len(tag)) = "\n"
    THEN SubSeq(tag, 1, Len(tag) - 1) ELSE tag

TagMatchesAs(tag, body) ==
    /\ Len(body) \in {4, 5}
    /\ SubSeq(body, 1, 2) = "cp"
    /\ IsDigits(SubSeq(body, 3, Len(body)))

TagMatches(tag) == TagMatchesAs(tag, tag) \/ TagMatchesAs(tag, TagBody(tag))

TagGroups(tag) ==
    LET body == IF TagMatchesAs(tag, tag) THEN tag ELSE TagBody(tag)
    IN  [maj |-> CharAt(body, 3), min |-> SubSeq(body, 4, Len(body))]

\* only called on a matching tag; the KeyError is raised by the caller's guard
pytag_to_python_version(tag) == TagGroups(tag).maj \o "." \o TagGroups(tag).min

pytag_to_python(tag) == "python" \o pytag_to_python_version(tag)

RECURSIVE MapStrToInt(_)
MapStrToInt(parts) ==
    IF Len(parts) = 0 THEN <<>>
    ELSE <<StrToInt(parts[1])>> \o MapStrToInt(Tail(parts))

str_to_version(value) == MapStrToInt(Split(value, "."))

RECURSIVE MapIntToStr(_)
MapIntToStr(t) ==
    IF Len(t) = 0 THEN <<>> ELSE <<IntToStr(t[1])>> \o MapIntToStr(Tail(t))

version_to_str(value) == Join(MapIntToStr(value), ".")

\* The grave accent.  A string literal only takes one together with a closing
\* apostrophe, so the character is cut out of that pair.
GraveAccent == SubSeq("`'", 1, 1)

\* the printable ASCII characters in code-point order, from the space on
Ascii ==
    " !\"#$%&'()*+,-./0123456789:;<=>?@ABCDEFGHIJKLMNOPQRSTUVWXYZ[\\]^_"
    \o GraveAccent \o "abcdefghijklmnopqrstuvwxyz{|}~"

\* the rank of c in code-point order
CharCode(c) == CHOOSE n \in 1..Len(Ascii) : CharAt(Ascii, n) = c

\* Python's str order: by code point, a proper prefix is smaller
RECURSIVE StrLess(_, _)
StrLess(a, b) ==
    IF Len(b) = 0 THEN FALSE
    ELSE IF Len(a) = 0 THEN TRUE
    ELSE IF Head(a) # Head(b) THEN CharCode(Head(a)) < CharCode(Head(b))
    ELSE StrLess(Tail(a), Tail(b))

\* a sort that compares the versions as text: "3.10" before "3.8"
TupleLessAsText(a, b) == StrLess(version_to_str(a), version_to_str(b))

\* Python's tuple order: lexicographic, a proper prefix is smaller
RECURSIVE TupleLess(_, _)
TupleLess(a, b) ==
    IF Len(b) = 0 THEN FALSE
    ELSE IF Len(a) = 0 THEN TRUE
    ELSE IF a[1] # b[1] THEN a[1] < b[1]
    ELSE TupleLess(Tail(a), Tail(b))

\* list(sorted(set(...))) of a set of tuples
RECURSIVE SortedTuples(_)
SortedTuples(S) ==
    IF S = {} THEN <<>>
    ELSE LET m == CHOOSE x \in S : \A y \in S \ {x} : TupleLess(x, y)
         IN  <<m>> \o SortedTuples(S \ {m})

(***************************************************************************)
(* generate_constraints: the static table and the version range test.      *)
(***************************************************************************)
\* ('pyyaml', '>= 5.4, <= 6.0', ('Cython < 3.0',))
build_constraints ==
    << [package |-> "pyyaml", lower |-> "5.4", upper |-> "6.0",
        constraints |-> <<"Cython < 3.0">>] >>

\* packaging.version.Version of a final release: its release segment
Version(version) == str_to_version(version)

\* release segments compare with trailing zeros ignored (5.4 == 5.4.0)
Pad(t, n) == [x \in 1..n |-> IF x <= Len(t) THEN t[x] ELSE 0]

VersionLessEq(a, b) ==
    LET n == IF Len(a) > Len(b) THEN Len(a) ELSE Len(b)
    IN  ~TupleLess(Pad(b, n), Pad(a, n))

\* SpecifierSet('>= lower, <= upper').contains(v)
SpecifierContains(row, v) ==
    VersionLessEq(Version(row.lower), v) /\ VersionLessEq(v, Version(row.upper))

RECURSIVE ConstraintsFrom(_, _, _)
ConstraintsFrom(rows, pkg_name, pkg_version) ==
    IF Len(rows) = 0 THEN ""
    ELSE IF rows[1].package = pkg_name /\ SpecifierContains(rows[1], pkg_version)
    THEN Join(rows[1].constraints, "\n")
    ELSE ConstraintsFrom(Tail(rows), pkg_name, pkg_version)

generate_constraints(pkg_name, version) ==
    ConstraintsFrom(build_constraints, Lower(pkg_name), Version(version))

(***************************************************************************)
(* json.dumps with its default separators, for str values, lists and the   *)
(* dicts the program builds.                                               *)
(***************************************************************************)
JsonEscapeChar(c) ==
    IF c = "\"" THEN "\\\""
    ELSE IF c = "\\" THEN "\\\\"
    ELSE IF c = "\n" THEN "\\n"
    ELSE c

RECURSIVE JsonEscape(_)
JsonEscape(s) ==
    IF Len(s) = 0 THEN ""
    ELSE IF Len(s) = 1 THEN JsonEscapeChar(s)
    ELSE LET h == Len(s) \div 2
         IN  JsonEscape(SubSeq(s, 1, h)) \o JsonEscape(SubSeq(s, h + 1, Len(s)))

JsonStr(s) == "\"" \o JsonEscape(s) \o "\""

\* a dict with str values, as the sequence of its <<key, value>> items
RECURSIVE JsonItems(_)
JsonItems(items) ==
    IF Len(items) = 0 THEN <<>>
    ELSE <<JsonStr(items[1][1]) \o ": " \o JsonStr(items[1][2])>> \o JsonItems(Tail(items))

JsonStrDict(items) == "{" \o Join(JsonItems(items), ", ") \o "}"

(***************************************************************************)
(* The collaborators: the package index behind QyPI and the bucket.        *)
(***************************************************************************)
SdistUrl(name, version) ==
    [packagetype |-> "sdist", url |-> "https://files/" \o name \o "-" \o version \o ".tar.gz"]

WheelUrl(name, version) ==
    [packagetype |-> "bdist_wheel",
     url |-> "https://files/" \o name \o "-" \o version \o "-py3-none-any.whl"]

\* the releases the index publishes
Releases ==
    { [name |-> "pkg", version |-> "1.2.3", latest |-> TRUE,
       urls |-> <<SdistUrl("pkg", "1.2.3")>>],
      [name |-> "my-pkg", version |-> "1.2.3", latest |-> TRUE,
       urls |-> <<WheelUrl("my-pkg", "1.2.3"), SdistUrl("my-pkg", "1.2.3")>>],
      [name |-> "PyYAML", version |-> "5.3", latest |-> FALSE,
       urls |-> <<WheelUrl("PyYAML", "5.3")>>],
      [name |-> "PyYAML", version |-> "5.4", latest |-> TRUE,
       urls |-> <<SdistUrl("PyYAML", "5.4"), WheelUrl("PyYAML", "5.4")>>] }

Response(r) == [info |-> [version |-> r.version], urls |-> r.urls]

NoResponse == [info |-> [version |-> ""], urls |-> <<>>]

\* pypi.get_latest_version(pkg_name): the matching releases (none: the call raises)
get_latest_version(pkg_name) ==
    {Response(r) : r \in {x \in Releases : x.name = pkg_name /\ x.latest}}

\* pypi.get_version(pkg_name, pkg_ver)
get_version(pkg_name, pkg_ver) ==
    {Response(r) : r \in {x \in Releases : x.name = pkg_name /\ x.version = pkg_ver}}

StartsWith(s, prefix) ==
    Len(prefix) <= Len(s) /\ SubSeq(s, 1, Len(prefix)) = prefix

\* s3.list_objects_v2(Bucket, Prefix, MaxKeys=1).get('Contents', []) is non-empty
ListObjects(keys, prefix) == \E key \in keys : StartsWith(key, prefix)

\* next(r for r in published_pkg['urls'] if r.get('packagetype') == 'sdist'),
\* as the matching entries in order (none: StopIteration)
RECURSIVE Sdists(_)
Sdists(urls) ==
    IF Len(urls) = 0 THEN <<>>
    ELSE (IF urls[1].packagetype = "sdist" THEN <<urls[1]>> ELSE <<>>) \o Sdists(Tail(urls))

(***************************************************************************)
(* The matrix builder.                                                     *)
(***************************************************************************)
\* a dict as the sequence of its <<key, value>> items: the index of key, or 0
IndexOfKey(items, key) ==
    IF \E n \in 1..Len(items) : items[n][1] = key
    THEN CHOOSE n \in 1..Len(items) : items[n][1] = key
    ELSE 0

JobName(platform_tag) == "wheel_" \o platform_tag

PackageEntry(b) ==
    [name |-> b.package,
     version |-> b.version,
     python |-> pytag_to_python(b.python_tag),
     python_version |-> pytag_to_python_version(b.python_tag),
     python_tag |-> b.python_tag,
     abi |-> b.abi_tag,
     sdist_dir |-> sdist_dir(b),
     sdist_url |-> b.sdist_url,
     expected_output_filename |-> filename(b),
     constraints |-> b.constraints]

\* a builder that assigns the package list of a job instead of appending to it
AddBuildOverwriting(m, b) ==
    LET job_name == JobName(b.platform_tag)
        n == IndexOfKey(m, job_name)
        job == [instance |-> b.platform_instance,
                arch |-> b.platform_arch,
                job_data |-> [instance |-> b.platform_instance,
                              arch |-> b.platform_arch,
                              packages |-> <<PackageEntry(b)>>]]
    IN  IF n = 0 THEN Append(m, <<job_name, job>>)
        ELSE [m EXCEPT ![n] = <<job_name, job>>]

\* one turn of the loop over missing: setdefault the job, overwrite instance and
\* arch, append the package entry
AddBuild(m, b) ==
    LET job_name == JobName(b.platform_tag)
        n == IndexOfKey(m, job_name)
        pkgs == IF n = 0 THEN <<>> ELSE m[n][2].job_data.packages
        job == [instance |-> b.platform_instance,
                arch |-> b.platform_arch,
                job_data |-> [instance |-> b.platform_instance,
                              arch |-> b.platform_arch,
                              packages |-> Append(pkgs, PackageEntry(b))]]
    IN  IF n = 0 THEN Append(m, <<job_name, job>>)
        ELSE [m EXCEPT ![n] = <<job_name, job>>]

RECURSIVE GroupMissing(_, _)
GroupMissing(m, order) ==
    IF Len(order) = 0 THEN m
    ELSE GroupMissing(AddBuild(m, order[1]), Tail(order))

PackageJson(e) ==
    JsonStrDict(<< <<"name", e.name>>, <<"version", e.version>>,
                   <<"python", e.python>>, <<"python_version", e.python_version>>,
                   <<"python_tag", e.python_tag>>, <<"abi", e.abi>>,
                   <<"sdist_dir", e.sdist_dir>>, <<"sdist_url", e.sdist_url>>,
                   <<"expected_output_filename", e.expected_output_filename>>,
                   <<"constraints", e.constraints>> >>)

RECURSIVE PackagesJson(_)
PackagesJson(pkgs) ==
    IF Len(pkgs) = 0 THEN <<>> ELSE <<PackageJson(pkgs[1])>> \o PackagesJson(Tail(pkgs))

\* json.dumps(job['job_data'])
JobDataJson(job_def) ==
    "{\"instance\": " \o JsonStr(job_def.instance) \o ", \"arch\": " \o JsonStr(job_def.arch)
    \o ", \"packages\": [" \o Join(PackagesJson(job_def.packages), ", ") \o "]}"

PythonVersions(pkgs) ==
    SortedTuples({str_to_version(pkgs[n].python_version) : n \in 1..Len(pkgs)})

RECURSIVE MapVersionToStr(_)
MapVersionToStr(vs) ==
    IF Len(vs) = 0 THEN <<>> ELSE <<version_to_str(vs[1])>> \o MapVersionToStr(Tail(vs))

\* one turn of the loop over matrix.items()
FlattenJob(job) ==
    LET python_versions == PythonVersions(job.job_data.packages)
    IN  [instance |-> job.instance,
         arch |-> job.arch,
         job_data |-> JobDataJson(job.job_data),
         python |-> version_to_str(Head(python_versions)),
         pythons |-> Join(MapVersionToStr(Tail(python_versions)), " ")]

RECURSIVE FlattenJobs(_)
FlattenJobs(m) ==
    IF Len(m) = 0 THEN <<>>
    ELSE << <<m[1][1], FlattenJob(m[1][2])>> >> \o FlattenJobs(Tail(m))

\* dict(sorted(matrix.items())): the keys are distinct, so the order is theirs
RECURSIVE SortedItems(_)
SortedItems(m) ==
    IF Len(m) = 0 THEN <<>>
    ELSE LET n == CHOOSE x \in 1..Len(m) :
                      \A y \in 1..Len(m) : y = x \/ StrLess(m[x][1], m[y][1])
             rest == [x \in 1..(Len(m) - 1) |-> IF x < n THEN m[x] ELSE m[x + 1]]
         IN  <<m[n]>> \o SortedItems(rest)

\* the iteration orders of a set
Orders(S) ==
    {o \in [1..Cardinality(S) -> S] : \A a, b \in 1..Cardinality(S) : a # b => o[a] # o[b]}

\* json.dumps(build_matrix)
JobJson(job) ==
    JsonStrDict(<< <<"instance", job.instance>>, <<"arch", job.arch>>,
                   <<"job_data", job.job_data>>, <<"python", job.python>>,
                   <<"pythons", job.pythons>> >>)

RECURSIVE MatrixItemsJson(_)
MatrixItemsJson(m) ==
    IF Len(m) = 0 THEN <<>>
    ELSE <<JsonStr(m[1][1]) \o ": " \o JobJson(m[1][2])>> \o MatrixItemsJson(Tail(m))

MatrixJson(m) == "{" \o Join(MatrixItemsJson(m), ", ") \o "}"

(***************************************************************************)
(* repr of the str values and dicts the program prints.                    *)
(***************************************************************************)
Has(s, c) == \E n \in 1..Len(s) : CharAt(s, n) = c

ReprEscapeChar(c, quote) ==
    IF c = quote THEN "\\" \o quote
    ELSE IF c = "\\" THEN "\\\\"
    ELSE IF c = "\n" THEN "\\n"
    ELSE c

RECURSIVE ReprEscape(_, _)
ReprEscape(s, quote) ==
    IF Len(s) = 0 THEN ""
    ELSE IF Len(s) = 1 THEN ReprEscapeChar(s, quote)
    ELSE LET h == Len(s) \div 2
         IN  ReprEscape(SubSeq(s, 1, h), quote) \o ReprEscape(SubSeq(s, h + 1, Len(s)), quote)

\* repr(s): single quotes, double quotes when s holds a single quote and no
\* double quote
Repr(s) ==
    LET quote == IF Has(s, "'") /\ ~Has(s, "\"") THEN "\"" ELSE "'"
    IN  quote \o ReprEscape(s, quote) \o quote

RECURSIVE ReprItems(_)
ReprItems(items) ==
    IF Len(items) = 0 THEN <<>>
    ELSE <<Repr(items[1][1]) \o ": " \o Repr(items[1][2])>> \o ReprItems(Tail(items))

JobRepr(job) ==
    "{" \o Join(ReprItems(<< <<"instance", job.instance>>, <<"arch", job.arch>>,
                              <<"job_data", job.job_data>>, <<"python", job.python>>,
                              <<"pythons", job.pythons>> >>), ", ") \o "}"

RECURSIVE MatrixItemsRepr(_)
MatrixItemsRepr(m) ==
    IF Len(m) = 0 THEN <<>>
    ELSE <<Repr(m[1][1]) \o ": " \o JobRepr(m[1][2])>> \o MatrixItemsRepr(Tail(m))

\* the {matrix} of the f-string
MatrixRepr(m) == "{" \o Join(MatrixItemsRepr(m), ", ") \o "}"

SetVariable(variable, value) ==
    "##vso[task.setvariable variable=" \o variable \o ";isOutput=true]" \o value

(***************************************************************************)
(* The inputs: wheel_matrix.yml documents and bucket contents, bounded.    *)
(* A dict read in order (packages, versions) is the sequence of its        *)
(* <<key, value>> items; the other dicts are functions on their keys.      *)
(***************************************************************************)
MaxPackages == 2

MaxVersions == 2

MaxWheels == 2

MaxPythons == 3

\* the most build specs one document asks for
MaxSpecs == 4

\* the runs of the program against one document and one bucket
MaxRuns == 2

\* the subsequences of cat of at most n items
RECURSIVE Pick(_, _, _)
Pick(cat, I, from) ==
    IF from > Len(cat) THEN <<>>
    ELSE (IF from \in I THEN <<cat[from]>> ELSE <<>>) \o Pick(cat, I, from + 1)

SubSeqsUpTo(cat, n) ==
    {Pick(cat, I, 1) : I \in {J \in SUBSET (1..Len(cat)) : Cardinality(J) <= n}}

PackageNames == <<"my-pkg", "PyYAML">>

Selectors == <<"latest", "1.2.3", "5.3">>

\* the second platform has the tag of the first and another instance and arch
Platforms ==
    << [platform_tag |-> "manylinux_2_17_x86_64", platform_instance |-> "centos/7",
        platform_arch |-> "x86_64"],
       [platform_tag |-> "manylinux_2_17_x86_64", platform_instance |-> "centos/8",
        platform_arch |-> "aarch64"],
       [platform_tag |-> "freebsd_13_0_amd64", platform_instance |-> "freebsd/13.0",
        platform_arch |-> "x86_64"] >>

PythonSpecs ==
    << [tag |-> "cp310"], [tag |-> "cp38"], [tag |-> "cp39", abi |-> "abi3"],
       [tag |-> "py3"] >>

\* Lists of platforms, by index; a non-empty list starts with the first platform
\* (which platform comes first changes nothing but names).
PlatformLists ==
    UNION {{ps \in [1..m -> 1..Len(Platforms)] : m = 0 \/ ps[1] = 1} : m \in 0..MaxWheels}

WithKey(d, key, value) ==
    [x \in DOMAIN d \cup {key} |-> IF x = key THEN value ELSE d[x]]

WithoutKey(d, key) == [x \in DOMAIN d \ {key} |-> d[x]]

\* the required keys of a document, outermost first
RequiredKeys ==
    <<"packages", "versions", "wheels", "platform_tag", "platform_instance",
      "platform_arch", "python", "tag">>

\* what a document can lack: nothing, or one required key at its last place
Damages == {"none"} \cup {RequiredKeys[n] : n \in 1..Len(RequiredKeys)}

PythonList(pys, damage) ==
    [n \in 1..Len(pys) |->
        IF n = Len(pys) /\ damage = "tag" THEN WithoutKey(pys[n], "tag") ELSE pys[n]]

WheelList(plats, pys, damage) ==
    [n \in 1..Len(plats) |->
        LET w == WithKey(Platforms[plats[n]], "python",
                         PythonList(pys, IF n = Len(plats) THEN damage ELSE "none"))
        IN  IF n = Len(plats) /\ damage \in DOMAIN w THEN WithoutKey(w, damage) ELSE w]

VersionItems(sels, plats, pys, damage) ==
    [n \in 1..Len(sels) |->
        <<sels[n], IF n = Len(sels) /\ damage = "wheels"
                   THEN [wheel |-> WheelList(plats, pys, "none")]
                   ELSE [wheels |-> WheelList(plats, pys, damage)]>>]

PackageItems(names, sels, plats, pys, damage) ==
    [n \in 1..Len(names) |->
        <<names[n], IF n = Len(names) /\ damage = "versions"
                    THEN [version |-> VersionItems(sels, plats, pys, "none")]
                    ELSE [versions |-> VersionItems(sels, plats, pys,
                                          IF n = Len(names) \/ damage # "wheels"
                                          THEN damage ELSE "none")]>>]

\* A document in which every package asks for the same versions, every version
\* for the same wheels and every wheel for the same pythons, as one written with
\* YAML anchors.
Document(names, sels, plats, pys, damage) ==
    IF damage = "packages"
    THEN [package |-> PackageItems(names, sels, plats, pys, "none")]
    ELSE [packages |-> PackageItems(names, sels, plats, pys, damage)]

\* the lists a document is made of, within the bound on its build specs
Shapes(pythons) ==
    {sh \in SubSeqsUpTo(PackageNames, MaxPackages) \X SubSeqsUpTo(Selectors, MaxVersions)
                \X PlatformLists \X pythons :
        Len(sh[1]) * Len(sh[2]) * Len(sh[3]) * Len(sh[4]) <= MaxSpecs}

Configs ==
    {Document(sh[1], sh[2], sh[3], sh[4], "none") :
        sh \in Shapes(SubSeqsUpTo(PythonSpecs, MaxPythons))}
    \cup
    {Document(sh[1], sh[2], sh[3], sh[4], damage) :
        sh \in {x \in Shapes({<<[tag |-> "cp38", abi |-> "abi3"]>>}) :
                   Len(x[1]) * Len(x[2]) * Len(x[3]) > 0},
        damage \in Damages \ {"none"}}

\* every artifact name the documents can ask for
Artifacts ==
    {"packages/" \o filename(BuildSpec(r.name, r.version, p.platform_instance,
                                       p.platform_arch, py.tag, py.abi, p.platform_tag, "", "")) :
        r \in Releases, p \in {Platforms[n] : n \in 1..Len(Platforms)},
        py \in {[tag |-> PythonSpecs[n].tag,
                 abi |-> IF "abi" \in DOMAIN PythonSpecs[n] THEN PythonSpecs[n].abi ELSE ""] :
                    n \in 1..Len(PythonSpecs)}}

\* bucket contents: nothing, everything, or the manylinux artifacts for Python 3.8
Buckets ==
    {{}, Artifacts,
     {key \in Artifacts :
         \E n \in 1..Len(key) :
             StartsWith(SubSeq(key, n, Len(key)), "-cp38-cp38-manylinux")}}

(***************************************************************************)
(* The program.                                                            *)
(***************************************************************************)
VARIABLES
    config,        \* wheel_matrix.yml as yaml.safe_load returns it
    bucket,        \* the keys of the spare-tire bucket
    s3_up,         \* whether list_objects_v2 answers
    pc,            \* where the run is
    i, j, k, l,    \* the positions of the four nested loops of _find_missing
    published_pkg, \* the index's answer for the current version
    missing,       \* the set _find_missing accumulates
    calls,         \* the requests made to the index and to the bucket, in order
    error,         \* the exception that ended the run, "" when none
    grouped,       \* matrix after the loop over missing, job_data still a dict
    matrix,        \* the value of build_matrix
    stdout,        \* the lines printed
    run,           \* the number of the run
    previous       \* the outcome of the run before

vars == <<config, bucket, s3_up, pc, i, j, k, l, published_pkg, missing, calls,
          error, grouped, matrix, stdout, run, previous>>

locals == <<i, j, k, l, published_pkg, missing>>

NoError == [type |-> "", arg |-> ""]

\* an unhandled exception: the interpreter exits, nothing more is printed
Raise(type, arg) ==
    /\ pc' = "failed"
    /\ error' = [type |-> type, arg |-> arg]

InitWith(configs, buckets) ==
    /\ config \in configs
    /\ bucket \in buckets
    /\ s3_up \in {b \in BOOLEAN : b \/ bucket = {}}
    /\ pc = "start"
    /\ i = 0 /\ j = 0 /\ k = 0 /\ l = 0
    /\ published_pkg = NoResponse
    /\ missing = {}
    /\ calls = <<>>
    /\ error = NoError
    /\ grouped = <<>>
    /\ matrix = <<>>
    /\ stdout = <<>>
    /\ run = 1
    /\ previous = [pc |-> "none", matrix |-> <<>>]

Init == InitWith(Configs, Buckets)

\* a main that first emits matrix_has_jobs as false
StartEmittingDefault ==
    /\ pc = "start"
    /\ stdout' = Append(stdout, SetVariable("matrix_has_jobs", "false"))
    /\ IF "packages" \in DOMAIN config
       THEN pc' = "packages" /\ i' = 1 /\ UNCHANGED error
       ELSE Raise("KeyError", "packages") /\ UNCHANGED i
    /\ UNCHANGED <<config, bucket, s3_up, j, k, l, published_pkg, missing, calls,
                   grouped, matrix, run, previous>>

\* main up to the loop header of _find_missing: self._pkg_matrix['packages']
Start ==
    /\ pc = "start"
    /\ IF "packages" \in DOMAIN config
       THEN pc' = "packages" /\ i' = 1 /\ UNCHANGED error
       ELSE Raise("KeyError", "packages") /\ UNCHANGED i
    /\ UNCHANGED <<config, bucket, s3_up, j, k, l, published_pkg, missing, calls,
                   grouped, matrix, stdout, run, previous>>

\* for pkg_name, pkg_reqs in ...items(): and pkg_reqs['versions']
NextPackage ==
    /\ pc = "packages"
    /\ IF i > Len(config.packages)
       THEN pc' = "build" /\ UNCHANGED <<j, error>>
       ELSE IF "versions" \in DOMAIN config.packages[i][2]
       THEN pc' = "versions" /\ j' = 1 /\ UNCHANGED error
       ELSE Raise("KeyError", "versions") /\ UNCHANGED j
    /\ UNCHANGED <<config, bucket, s3_up, i, k, l, published_pkg, missing, calls,
                   grouped, matrix, stdout, run, previous>>

\* for pkg_ver, pkg_builds in ...items(): the index request, then pkg_builds['wheels']
NextVersion ==
    /\ pc = "versions"
    /\ LET pkg_name == config.packages[i][1]
           versions == config.packages[i][2].versions
       IN  IF j > Len(versions)
           THEN /\ pc' = "packages" /\ i' = i + 1
                /\ UNCHANGED <<k, published_pkg, calls, error>>
           ELSE LET pkg_ver == versions[j][1]
                    pkg_builds == versions[j][2]
                    answers == IF pkg_ver = "latest" THEN get_latest_version(pkg_name)
                               ELSE get_version(pkg_name, pkg_ver)
                IN  /\ calls' = Append(calls, [to |-> "pypi", package |-> pkg_name,
                                               version |-> pkg_ver])
                    /\ IF answers = {}
                       THEN Raise("QyPIError", pkg_name) /\ UNCHANGED <<k, published_pkg>>
                       ELSE /\ published_pkg' = CHOOSE a \in answers : TRUE
                            /\ IF "wheels" \in DOMAIN pkg_builds
                               THEN pc' = "wheels" /\ k' = 1 /\ UNCHANGED error
                               ELSE Raise("KeyError", "wheels") /\ UNCHANGED k
                    /\ UNCHANGED i
    /\ UNCHANGED <<config, bucket, s3_up, j, l, missing, grouped, matrix, stdout,
                   run, previous>>

\* the keys of a wheel entry, in the order the loop body reads them
WheelKeyOrder == <<"platform_tag", "platform_instance", "platform_arch", "python">>

WheelKeys == {WheelKeyOrder[n] : n \in 1..Len(WheelKeyOrder)}

RECURSIVE FirstMissing(_, _)
FirstMissing(keys, d) ==
    IF Head(keys) \notin DOMAIN d THEN Head(keys) ELSE FirstMissing(Tail(keys), d)

\* for pkg_build in pkg_builds['wheels']: its four required keys
NextWheel ==
    /\ pc = "wheels"
    /\ LET wheels == config.packages[i][2].versions[j][2].wheels
       IN  IF k > Len(wheels)
           THEN pc' = "versions" /\ j' = j + 1 /\ UNCHANGED <<l, error>>
           ELSE IF WheelKeys \subseteq DOMAIN wheels[k]
           THEN pc' = "pythons" /\ l' = 1 /\ UNCHANGED <<j, error>>
           ELSE Raise("KeyError", FirstMissing(WheelKeyOrder, wheels[k]))
                /\ UNCHANGED <<j, l>>
    /\ UNCHANGED <<config, bucket, s3_up, i, k, published_pkg, missing, calls,
                   grouped, matrix, stdout, run, previous>>

\* for python_spec in pkg_build['python']: build the spec and ask the bucket
NextPython ==
    /\ pc = "pythons"
    /\ LET pkg_name == config.packages[i][1]
           version == published_pkg.info.version
           pkg_build == config.packages[i][2].versions[j][2].wheels[k]
       IN  IF l > Len(pkg_build.python)
           THEN /\ pc' = "wheels" /\ k' = k + 1
                /\ UNCHANGED <<l, missing, calls, error, stdout>>
           ELSE LET python_spec == pkg_build.python[l]
                    sdists == Sdists(published_pkg.urls)
                IN  IF "tag" \notin DOMAIN python_spec
                    THEN Raise("KeyError", "tag") /\ UNCHANGED <<k, l, missing, calls, stdout>>
                    ELSE IF Len(sdists) = 0
                    THEN Raise("StopIteration", "") /\ UNCHANGED <<k, l, missing, calls, stdout>>
                    ELSE LET abi_tag == IF "abi" \in DOMAIN python_spec
                                        THEN python_spec.abi ELSE ""
                             spec == BuildSpec(pkg_name, version,
                                               pkg_build.platform_instance,
                                               pkg_build.platform_arch, python_spec.tag,
                                               abi_tag, pkg_build.platform_tag,
                                               sdists[1].url,
                                               generate_constraints(pkg_name, version))
                             prefix == "packages/" \o filename(spec)
                             checking == "checking bucket for " \o filename(spec)
                             absent == filename(spec) \o " is not present in bucket"
                         IN  /\ calls' = Append(calls, [to |-> "s3", spec |-> spec,
                                                            prefix |-> prefix])
                             /\ IF ~s3_up
                                THEN /\ Raise("ClientError", prefix)
                                     /\ stdout' = Append(stdout, checking)
                                     /\ UNCHANGED <<l, missing>>
                                ELSE /\ l' = l + 1
                                     /\ IF ListObjects(bucket, prefix)
                                        THEN /\ stdout' = Append(stdout, checking)
                                             /\ UNCHANGED missing
                                        ELSE /\ stdout' = stdout \o <<checking, absent>>
                                             /\ missing' = missing \cup {spec}
                                     /\ UNCHANGED <<pc, error>>
                             /\ UNCHANGED k
    /\ UNCHANGED <<config, bucket, s3_up, i, j, published_pkg, grouped, matrix,
                   run, previous>>

RECURSIVE DataLines(_)
DataLines(m) ==
    IF Len(m) = 0 THEN <<>>
    ELSE <<m[1][1] \o " data is " \o m[1][2].job_data>> \o DataLines(Tail(m))

\* build_matrix after _find_missing returned: the set is iterated in some order
BuildMatrix ==
    /\ pc = "build"
    /\ IF \E b \in missing : ~TagMatches(b.python_tag)
       THEN /\ \E b \in {x \in missing : ~TagMatches(x.python_tag)} :
                   Raise("KeyError", "invalid python tag " \o b.python_tag)
            /\ UNCHANGED <<grouped, matrix, stdout>>
       ELSE \E order \in Orders(missing) :
                LET m == GroupMissing(<<>>, order)
                    flat == FlattenJobs(m)
                IN  /\ grouped' = m
                    /\ matrix' = SortedItems(flat)
                    /\ stdout' = stdout \o DataLines(flat)
                                   \o <<"output matrix is now: " \o MatrixRepr(SortedItems(flat))>>
                    /\ pc' = "emit_matrix"
                    /\ UNCHANGED error
    /\ UNCHANGED <<config, bucket, s3_up, locals, calls, run, previous>>

\* main: the matrix variable
EmitMatrix ==
    /\ pc = "emit_matrix"
    /\ stdout' = stdout \o <<"dumping build matrix to variable "
                                 \o GraveAccent \o "matrix" \o GraveAccent,
                             SetVariable("matrix", MatrixJson(matrix))>>
    /\ pc' = "emit_has_jobs"
    /\ UNCHANGED <<config, bucket, s3_up, locals, calls, error, grouped, matrix,
                   run, previous>>

\* a main that emits matrix_has_jobs without testing the matrix
EmitHasJobsAlways ==
    /\ pc = "emit_has_jobs"
    /\ stdout' = Append(stdout, SetVariable("matrix_has_jobs", "true"))
    /\ pc' = "done"
    /\ UNCHANGED <<config, bucket, s3_up, locals, calls, error, grouped, matrix,
                   run, previous>>

\* main: if build_matrix: the matrix_has_jobs variable
EmitHasJobs ==
    /\ pc = "emit_has_jobs"
    /\ stdout' = IF Len(matrix) > 0
                 THEN Append(stdout, SetVariable("matrix_has_jobs", "true"))
                 ELSE stdout
    /\ pc' = "done"
    /\ UNCHANGED <<config, bucket, s3_up, locals, calls, error, grouped, matrix,
                   run, previous>>

\* the pipeline runs the program again on the same document and bucket
Rerun ==
    /\ pc \in {"done", "failed"}
    /\ run < MaxRuns
    /\ run' = run + 1
    /\ previous' = [pc |-> pc, matrix |-> matrix]
    /\ pc' = "start"
    /\ i' = 0 /\ j' = 0 /\ k' = 0 /\ l' = 0
    /\ published_pkg' = NoResponse
    /\ missing' = {}
    /\ calls' = <<>>
    /\ error' = NoError
    /\ grouped' = <<>>
    /\ matrix' = <<>>
    /\ stdout' = <<>>
    /\ UNCHANGED <<config, bucket, s3_up>>

Next ==
    \/ Start
    \/ NextPackage
    \/ NextVersion
    \/ NextWheel
    \/ NextPython
    \/ BuildMatrix
    \/ EmitMatrix
    \/ EmitHasJobs

Spec == Init /\ [][Next]_vars

\* the program run up to MaxRuns times on one document and one bucket
NextRuns == Next \/ Rerun

SpecRuns == Init /\ [][NextRuns]_vars

(***************************************************************************)
(* The same program on documents that ask for one build spec each, over    *)
(* the package names and tags filename derivation distinguishes.           *)
(***************************************************************************)
FilenameConfigs ==
    {[packages |-> << <<name, [versions |-> << <<"1.2.3", [wheels |->
                         << [platform_tag |-> platform_tag,
                             platform_instance |-> "centos/7",
                             platform_arch |-> "x86_64",
                             python |-> <<python_spec>>] >>]>> >>]>> >>] :
        name \in {"pkg", "my-pkg"},
        platform_tag \in {"manylinux_2_17_x86_64", ""},
        python_spec \in {[tag |-> tag] : tag \in {"cp39", ""}} \cup
                        {[tag |-> tag, abi |-> abi] : tag \in {"cp39", ""},
                                                      abi \in {"", "abi3"}}}

FilenameBuckets == {{}, {"packages/pkg-1.2.3-cp39-abi3-manylinux_2_17_x86_64.whl.metadata"}}

InitFilename == InitWith(FilenameConfigs, FilenameBuckets)

SpecFilename == InitFilename /\ [][Next]_vars

(***************************************************************************)
(* Properties.                                                             *)
(***************************************************************************)
S3Calls == {n \in 1..Len(calls) : calls[n].to = "s3"}

PypiCalls == {n \in 1..Len(calls) : calls[n].to = "pypi"}

Present(prefix) == \E key \in bucket : StartsWith(key, prefix)

IsSetVariable(line, variable) ==
    StartsWith(line, "##vso[task.setvariable variable=" \o variable \o ";")

Emitted(variable) == \E n \in 1..Len(stdout) : IsSetVariable(stdout[n], variable)

\* build_matrix has returned its value
Completed == pc \in {"emit_matrix", "emit_has_jobs", "done"}

\* the package entries recorded for a job of the result
PackagesOf(job_name) == grouped[IndexOfKey(grouped, job_name)][2].job_data.packages

IsEntryOf(e, b) ==
    /\ e.name = b.package /\ e.version = b.version
    /\ e.python_tag = b.python_tag /\ e.abi = b.abi_tag
    /\ e.sdist_url = b.sdist_url /\ e.constraints = b.constraints

RECURSIVE Underscored(_)
Underscored(name) ==
    IF name = "" THEN ""
    ELSE (IF Head(name) = "-" THEN "_" ELSE Head(name)) \o Underscored(Tail(name))

Hyphened(component) == IF component = "" THEN "" ELSE "-" \o component

AbiComponent(b) == IF b.abi_tag # "" THEN b.abi_tag ELSE b.python_tag

\* C1 as stated: the filename of every build spec is the package name, the
\* version, python_tag, abi_tag (python_tag when abi_tag is empty) and
\* platform_tag joined by hyphens, with ".whl" appended.
C1_FilenameJoinsNameAndTags ==
    \A n \in S3Calls :
        LET b == calls[n].spec
        IN  calls[n].prefix = "packages/" \o b.package \o "-" \o b.version \o "-"
                \o b.python_tag \o "-" \o AbiComponent(b) \o "-" \o b.platform_tag \o ".whl"

\* C1 amended: the filename of every build spec is the package name with each
\* hyphen replaced by an underscore, then the version, python_tag, abi_tag
\* (python_tag when abi_tag is empty) and platform_tag, each non-empty one
\* preceded by a hyphen, with ".whl" appended; the two examples of the claim
\* come out as stated.
C1_FilenameUnderscoresNameAndSkipsEmpty ==
    \A n \in S3Calls :
        LET b == calls[n].spec
        IN  /\ calls[n].prefix = "packages/" \o Underscored(b.package) \o "-" \o b.version
                    \o Hyphened(b.python_tag) \o Hyphened(AbiComponent(b))
                    \o Hyphened(b.platform_tag) \o ".whl"
            /\ (b.package = "pkg" /\ b.python_tag = "cp39"
                    /\ b.platform_tag = "manylinux_2_17_x86_64")
               => calls[n].prefix =
                      IF b.abi_tag = "abi3"
                      THEN "packages/pkg-1.2.3-cp39-abi3-manylinux_2_17_x86_64.whl"
                      ELSE "packages/pkg-1.2.3-cp39-cp39-manylinux_2_17_x86_64.whl"

\* C1 witness: the bucket was asked for a hyphenated package without abi tag.
C1_HyphenatedNameQueried ==
    \E n \in S3Calls :
        /\ calls[n].spec.package = "my-pkg" /\ calls[n].spec.abi_tag = ""
        /\ calls[n].prefix = "packages/my_pkg-1.2.3-cp39-cp39-manylinux_2_17_x86_64.whl"

\* C2 as stated: a run never asks the bucket for a build spec whose python tag
\* does not match cp<major digit><one or two minor digits>; it has failed with
\* the invalid-tag error before.
C2_InvalidTagFailsBeforeItsQuery ==
    \A n \in S3Calls : TagMatches(calls[n].spec.python_tag)

\* C3 as stated: a second run on the same document, index and bucket returns
\* the same matrix as the first, job for job and byte for byte.
C3_RunsAgree ==
    (pc = "done" /\ previous.pc = "done") => matrix = previous.matrix

VersionOfTag == [tag \in {"cp38", "cp39", "cp310"} |->
                    IF tag = "cp38" THEN <<3, 8>>
                    ELSE IF tag = "cp39" THEN <<3, 9>> ELSE <<3, 10>>]

TextOfVersion(v) == IF v = <<3, 8>> THEN "3.8" ELSE IF v = <<3, 9>> THEN "3.9" ELSE "3.10"

MajorMinorLess(a, b) == a[1] < b[1] \/ (a[1] = b[1] /\ a[2] < b[2])

\* C4: in every job of the result, python is the smallest (major, minor) among
\* the python versions of the job's package entries, and pythons lists the other
\* distinct versions in ascending (major, minor) order, separated by one space.
C4_PrimaryIsSmallestRestAscending ==
    Completed =>
        \A n \in 1..Len(matrix) :
            LET job == matrix[n][2]
                pkgs == PackagesOf(matrix[n][1])
                versions == {VersionOfTag[pkgs[q].python_tag] : q \in 1..Len(pkgs)}
                smallest == CHOOSE v \in versions :
                                \A w \in versions \ {v} : MajorMinorLess(v, w)
                others == IF job.pythons = "" THEN <<>> ELSE Split(job.pythons, " ")
            IN  /\ job.python = TextOfVersion(smallest)
                /\ Len(others) = Cardinality(versions) - 1
                /\ {others[q] : q \in 1..Len(others)}
                       = {TextOfVersion(v) : v \in versions \ {smallest}}
                /\ \A q, r \in 1..Len(others) :
                       q < r => \E v, w \in versions :
                                    /\ others[q] = TextOfVersion(v)
                                    /\ others[r] = TextOfVersion(w)
                                    /\ MajorMinorLess(v, w)

\* C4 witness: a job for 3.8, 3.9 and 3.10.
C4_ThreeVersionsInOneJob ==
    /\ Completed
    /\ \E n \in 1..Len(matrix) :
           matrix[n][2].python = "3.8" /\ matrix[n][2].pythons = "3.9 3.10"

\* C5: once build_matrix has returned, the missing set is exactly the queried
\* specs the bucket did not hold, the job wheel_<T> lists exactly the missing
\* specs of platform_tag T (one entry each), every missing spec has its job, and
\* no job is empty.
C5_JobsListExactlyTheMissing ==
    Completed =>
        /\ missing = {calls[n].spec : n \in {x \in S3Calls : ~Present(calls[x].prefix)}}
        /\ Len(matrix) = Len(grouped)
        /\ \A b \in missing :
               Cardinality({n \in 1..Len(matrix) :
                               matrix[n][1] = "wheel_" \o b.platform_tag}) = 1
        /\ \A n \in 1..Len(matrix) :
               LET pkgs == PackagesOf(matrix[n][1])
                   mine == {b \in missing : "wheel_" \o b.platform_tag = matrix[n][1]}
               IN  /\ Len(pkgs) > 0
                   /\ Len(pkgs) = Cardinality(mine)
                   /\ matrix[n][2].job_data = JobDataJson(grouped[IndexOfKey(grouped, matrix[n][1])][2].job_data)
                   /\ \A q \in 1..Len(pkgs) :
                          Cardinality({r \in 1..Len(pkgs) : pkgs[r] = pkgs[q]})
                              = Cardinality({b \in mine : IsEntryOf(pkgs[q], b)})

\* C5 witness: two jobs, one of them with two entries, and an artifact found.
C5_TwoJobsAndOneArtifactFound ==
    /\ Completed
    /\ Len(matrix) = 2
    /\ \E n \in 1..Len(matrix) : Len(PackagesOf(matrix[n][1])) = 2
    /\ \E n \in S3Calls : Present(calls[n].prefix)

\* C6: matrix_has_jobs is emitted, with the value true, exactly by the runs
\* whose matrix has a job; a run that found every artifact ends with an empty
\* missing set, an empty matrix and no matrix_has_jobs.
C6_HasJobsIffMatrixNonEmpty ==
    /\ pc = "done" => (Emitted("matrix_has_jobs") <=> Len(matrix) > 0)
    /\ pc # "done" => ~Emitted("matrix_has_jobs")
    /\ \A n \in 1..Len(stdout) :
           IsSetVariable(stdout[n], "matrix_has_jobs")
               => stdout[n] = "##vso[task.setvariable variable=matrix_has_jobs;isOutput=true]true"
    /\ (pc = "done" /\ \A n \in S3Calls : Present(calls[n].prefix))
           => (missing = {} /\ matrix = <<>> /\ ~Emitted("matrix_has_jobs"))

\* C6 witness: a finished run that found every artifact it asked for.
C6_EveryArtifactFound ==
    /\ pc = "done"
    /\ S3Calls # {}
    /\ \A n \in S3Calls : Present(calls[n].prefix)
    /\ Emitted("matrix")
    /\ ~Emitted("matrix_has_jobs")

\* C7: a run that fails has emitted no pipeline variable, and a run that has
\* emitted one does not fail afterwards.
C7_NoVariableFromFailedRun ==
    /\ pc = "failed" => \A n \in 1..Len(stdout) : ~StartsWith(stdout[n], "##vso[")
    /\ (Emitted("matrix") \/ Emitted("matrix_has_jobs")) => pc \in {"emit_has_jobs", "done"}
    /\ error # NoError <=> pc = "failed"

\* C7 witness: a run that failed on an invalid tag after it had printed.
C7_FailedAfterQueries ==
    /\ pc = "failed"
    /\ error = [type |-> "KeyError", arg |-> "invalid python tag py3"]
    /\ Len(stdout) > 0

ConfigKeys ==
    {"packages", "versions", "wheels", "platform_tag", "platform_instance",
     "platform_arch", "python", "tag"}

\* C8 as stated: a run that fails on a missing configuration key has made no
\* request to the index and none to the bucket.
C8_ConfigErrorBeforeAnyCall ==
    (pc = "failed" /\ error.type = "KeyError" /\ error.arg \in ConfigKeys) => calls = <<>>

\* C9 as stated: no two missing specs, and no two package entries of a job,
\* are for the same (package, version, platform, python tag, abi tag).
C9_OneEntryPerCombination ==
    /\ \A a, b \in missing :
           (/\ a.package = b.package /\ a.version = b.version
            /\ a.platform_tag = b.platform_tag
            /\ a.python_tag = b.python_tag /\ a.abi_tag = b.abi_tag) => a = b
    /\ \A n \in 1..Len(grouped) :
           LET pkgs == grouped[n][2].job_data.packages
           IN  \A q, r \in 1..Len(pkgs) :
                   (/\ pkgs[q].name = pkgs[r].name /\ pkgs[q].version = pkgs[r].version
                    /\ pkgs[q].python_tag = pkgs[r].python_tag
                    /\ pkgs[q].abi = pkgs[r].abi) => q = r

\* C10 as stated: the instance and arch of a job, and those inside its
\* job_data, are the platform_instance and platform_arch of every build spec
\* listed in the job.
C10_JobPlatformIsThatOfItsSpecs ==
    Completed =>
        \A n \in 1..Len(matrix) : \A b \in missing :
            "wheel_" \o b.platform_tag = matrix[n][1] =>
                LET job_data == grouped[IndexOfKey(grouped, matrix[n][1])][2].job_data
                IN  /\ matrix[n][2].instance = b.platform_instance
                    /\ matrix[n][2].arch = b.platform_arch
                    /\ job_data.instance = b.platform_instance
                    /\ job_data.arch = b.platform_arch
====
